---------------------------- MODULE Spec2Model ----------------------------
(***************************************************************************)
(* A model of FileInspectorService (file-inspector.service.ts): file-type  *)
(* classification, 3MF slicing detection, printer / slicer / settings      *)
(* extraction.  Text is modelled as TLA+ strings (sequences of characters) *)
(* and every JavaScript string / RegExp primitive the service calls is     *)
(* modelled by what it computes on those characters.                       *)
(***************************************************************************)
EXTENDS Naturals, Integers, Sequences, FiniteSets, TLC

VARIABLES pc, input, output

vars == <<pc, input, output>>

(***************************************************************************)
(* JavaScript string primitives                                            *)
(***************************************************************************)

\* s.charAt(i-1): the i-th character as a one-character string
Ch(s, i) == SubSeq(s, i, i)

\* characters a..b of s, empty when there are none
substring(s, a, b) == IF a > b THEN "" ELSE SubSeq(s, a, b)

CharsOf(s) == {Ch(s, i) : i \in 1..Len(s)}

UpperCase == "ABCDEFGHIJKLMNOPQRSTUVWXYZ"

LowerCase == "abcdefghijklmnopqrstuvwxyz"

LowerMap == [c \in CharsOf(UpperCase) |->
               Ch(LowerCase, CHOOSE i \in 1..Len(UpperCase) : Ch(UpperCase, i) = c)]

lowerChar(c) == IF c \in DOMAIN LowerMap THEN LowerMap[c] ELSE c

\* String.prototype.toLowerCase on characters a..b of s
RECURSIVE lowerRange(_, _, _)
lowerRange(s, a, b) ==
  IF a > b THEN ""
  ELSE IF a = b THEN lowerChar(Ch(s, a))
  ELSE LET mid == (a + b) \div 2
       IN  lowerRange(s, a, mid) \o lowerRange(s, mid + 1, b)

toLowerCase(s) == lowerRange(s, 1, Len(s))

\* String.prototype.startsWith
startsWith(s, p) == Len(p) <= Len(s) /\ SubSeq(s, 1, Len(p)) = p

\* String.prototype.endsWith
endsWith(s, p) == Len(p) <= Len(s) /\ SubSeq(s, Len(s) - Len(p) + 1, Len(s)) = p

\* String.prototype.includes
includes(s, p) == \E i \in 1..(Len(s) - Len(p) + 1) : SubSeq(s, i, i + Len(p) - 1) = p

\* the least / greatest element of a non-empty set of numbers
Least(S) == CHOOSE x \in S : \A y \in S : x <= y

Greatest(S) == CHOOSE x \in S : \A y \in S : x >= y

\* the element of a one-element set; the({e(x) : x \in {v}}) is e(x) with x
\* naming the value v, as a const declaration does
the(S) == CHOOSE x \in S : TRUE

\* String.prototype.split with a one-character separator: the pieces in order
\* (always at least one piece)
split(s, sep) ==
  LET at == {i \in 1..Len(s) : Ch(s, i) = sep}
      cut == [k \in 0..(Cardinality(at) + 1) |->
                IF k = 0 THEN 0
                ELSE IF k = Cardinality(at) + 1 THEN Len(s) + 1
                ELSE CHOOSE i \in at : Cardinality({j \in at : j < i}) = k - 1]
  IN  [k \in 1..(Cardinality(at) + 1) |-> substring(s, cut[k - 1] + 1, cut[k] - 1)]

\* Array.prototype.pop on a non-empty array: its last element
pop(a) == a[Len(a)]

\* Array.prototype.slice(0, n)
slice(a, n) == SubSeq(a, 1, IF Len(a) < n THEN Len(a) ELSE n)

WhiteSpace == {" ", "\t", "\n", "\r", "\f"}

\* String.prototype.trim
trim(s) ==
  LET lead  == {i \in 1..Len(s) : \A j \in 1..i : Ch(s, j) \in WhiteSpace}
      trail == {i \in 1..Len(s) : \A j \in i..Len(s) : Ch(s, j) \in WhiteSpace}
      from  == Cardinality(lead) + 1
      to    == Len(s) - Cardinality(trail)
  IN  substring(s, from, to)

(***************************************************************************)
(* JavaScript regular expressions, as far as the service uses them: a      *)
(* pattern is a sequence of atoms, each a character class with a           *)
(* quantifier, optionally inside capture group 1 or 2.  Matching is the    *)
(* backtracking search of String.prototype.match without the g flag:       *)
(* leftmost start, greedy (or lazy) quantifiers tried in priority order.   *)
(***************************************************************************)

Unbounded == 0 - 1

\* one character of a class, with a quantifier
Atom(set, neg, min, max, lazy) ==
  <<[lit |-> "", set |-> set, neg |-> neg, min |-> min, max |-> max, lazy |-> lazy,
     grp |-> 0]>>

\* the literal text str
Lit(str) ==
  <<[lit |-> str, set |-> {}, neg |-> FALSE, min |-> 1, max |-> 1, lazy |-> FALSE,
     grp |-> 0]>>

\* [abc]
Cls(set) == Atom(set, FALSE, 1, 1, FALSE)

\* [^abc]
NotCls(set) == Atom(set, TRUE, 1, 1, FALSE)

\* .  (any character but a line terminator)
Dot == NotCls({"\n", "\r"})

\* \d
Digits == CharsOf("0123456789")

\* \s
Spaces == WhiteSpace

\* x*, x+, x*? on a one-character pattern x
Star(x) == <<[x[1] EXCEPT !.min = 0, !.max = Unbounded]>>

Plus(x) == <<[x[1] EXCEPT !.min = 1, !.max = Unbounded]>>

LazyStar(x) == <<[x[1] EXCEPT !.min = 0, !.max = Unbounded, !.lazy = TRUE]>>

\* ( ... ) as capture group g
Group(g, atoms) == [k \in 1..Len(atoms) |-> [atoms[k] EXCEPT !.grp = g]]

\* /atoms/ or, with ci, /atoms/i: case-insensitive matching compares the
\* case-folded pattern with the case-folded input
RegExp(atoms, ci) ==
  [atoms |-> IF ci
               THEN [k \in 1..Len(atoms) |->
                       [atoms[k] EXCEPT !.set = {lowerChar(c) : c \in @},
                                        !.lit = toLowerCase(@)]]
               ELSE atoms,
   ci |-> ci]

Accepts(a, c) == (c \in a.set) # a.neg

\* how many consecutive characters from position i the class atom a takes at most
Run(a, s, i) ==
  LET stop == {j \in i..Len(s) : ~Accepts(a, Ch(s, j))}
      n == IF stop = {} THEN Len(s) - i + 1 ELSE Least(stop) - i
  IN  IF a.max # Unbounded /\ n > a.max THEN a.max ELSE n

\* atoms k.. of re matched at position i of s: the start position of every
\* atom followed by the end of the match, or <<>> when there is no match.  A
\* quantified atom takes the first count, in the quantifier's priority order
\* (greedy: most first, lazy: fewest first), with which the rest matches.
RECURSIVE MatchFrom(_, _, _, _)
MatchFrom(re, k, s, i) ==
  IF k > Len(re.atoms) THEN <<i>>
  ELSE LET a == re.atoms[k]
       IN  IF a.lit # ""
             THEN IF i + Len(a.lit) - 1 <= Len(s) /\ SubSeq(s, i, i + Len(a.lit) - 1) = a.lit
                    THEN LET r == MatchFrom(re, k + 1, s, i + Len(a.lit))
                         IN  IF Len(r) > 0 THEN <<i>> \o r ELSE <<>>
                    ELSE <<>>
             ELSE LET n == Run(a, s, i)
                      ok == {c \in a.min..n : Len(MatchFrom(re, k + 1, s, i + c)) > 0}
                  IN  IF ok = {} THEN <<>>
                      ELSE LET c == IF a.lazy THEN Least(ok) ELSE Greatest(ok)
                           IN  <<i>> \o MatchFrom(re, k + 1, s, i + c)

\* s.match(re) without the g flag: the leftmost match; whether it matched
\* and, per capture group, whether the group exists (match[g] is undefined
\* otherwise) and the text it captured
match(s, re) ==
  LET t == IF re.ci THEN toLowerCase(s) ELSE s
      starts == {i \in 1..(Len(t) + 1) : Len(MatchFrom(re, 1, t, i)) > 0}
      ks(g) == {k \in 1..Len(re.atoms) : re.atoms[k].grp = g}
  IN  the({ [found |-> Len(r) > 0,
             has |-> [g \in 1..2 |-> Len(r) > 0 /\ ks(g) # {}],
             m |-> [g \in 1..2 |->
                      IF Len(r) > 0 /\ ks(g) # {}
                        THEN substring(s, r[Least(ks(g))], r[Greatest(ks(g)) + 1] - 1)
                        ELSE ""]]
            : r \in {IF starts = {} THEN <<>> ELSE MatchFrom(re, 1, t, Least(starts))} })

\* a captured group as a JavaScript condition: defined and not the empty string
truthy(mt, g) == mt.has[g] /\ mt.m[g] # ""

(***************************************************************************)
(* FileType (types.ts)                                                     *)
(***************************************************************************)

STL == "stl"

TMF == "3mf"

GCODE == "gcode"

UNKNOWN == "unknown"

(***************************************************************************)
(* detectFileType                                                          *)
(***************************************************************************)

detectFileType(name) ==
  LET extension == pop(split(toLowerCase(name), "."))
  IN  CASE extension = "stl" -> STL
        [] extension = "3mf" -> TMF
        [] extension = "gcode" -> GCODE
        [] extension = "g" -> GCODE
        [] OTHER -> UNKNOWN

(***************************************************************************)
(* parsePrinterName                                                        *)
(***************************************************************************)

\* a variant that puts the brand in front of an unrecognised model name
parsePrinterName_brandPrefixed(name) ==
  LET lowerName == toLowerCase(name)
  IN  IF includes(lowerName, "prusa")
        THEN IF includes(lowerName, "mk3") THEN [name |-> "i3 MK3S+", brand |-> "Prusa Research"]
             ELSE IF includes(lowerName, "mk4") THEN [name |-> "MK4", brand |-> "Prusa Research"]
             ELSE IF includes(lowerName, "mini") THEN [name |-> "MINI+", brand |-> "Prusa Research"]
             ELSE IF includes(lowerName, "xl") THEN [name |-> "XL", brand |-> "Prusa Research"]
             ELSE [name |-> "Prusa Research " \o name, brand |-> "Prusa Research"]
      ELSE IF includes(lowerName, "bambu")
        THEN IF includes(lowerName, "x1") THEN [name |-> "X1 Carbon", brand |-> "Bambu Lab"]
             ELSE IF includes(lowerName, "a1") THEN [name |-> "A1 mini", brand |-> "Bambu Lab"]
             ELSE [name |-> "Bambu Lab " \o name, brand |-> "Bambu Lab"]
      ELSE IF includes(lowerName, "ender")
        THEN [name |-> "Creality " \o name, brand |-> "Creality"]
      ELSE [name |-> name, brand |-> "Generic"]

parsePrinterName(name) ==
  LET lowerName == toLowerCase(name)
  IN  IF includes(lowerName, "prusa")
        THEN IF includes(lowerName, "mk3") THEN [name |-> "i3 MK3S+", brand |-> "Prusa Research"]
             ELSE IF includes(lowerName, "mk4") THEN [name |-> "MK4", brand |-> "Prusa Research"]
             ELSE IF includes(lowerName, "mini") THEN [name |-> "MINI+", brand |-> "Prusa Research"]
             ELSE IF includes(lowerName, "xl") THEN [name |-> "XL", brand |-> "Prusa Research"]
             ELSE [name |-> name, brand |-> "Prusa Research"]
      ELSE IF includes(lowerName, "bambu")
        THEN IF includes(lowerName, "x1") THEN [name |-> "X1 Carbon", brand |-> "Bambu Lab"]
             ELSE IF includes(lowerName, "a1") THEN [name |-> "A1 mini", brand |-> "Bambu Lab"]
             ELSE [name |-> name, brand |-> "Bambu Lab"]
      ELSE IF includes(lowerName, "ender")
        THEN [name |-> name, brand |-> "Creality"]
      ELSE [name |-> name, brand |-> "Generic"]

(***************************************************************************)
(* The File handed to the service: its name, its size and its bytes, which *)
(* are unreadable, a text, or a zip archive of named entries.              *)
(***************************************************************************)

\* the value of a JavaScript expression that is undefined
undefined == [undefined |-> TRUE]

\* await file.text(): rejects when the bytes cannot be read; the bytes of an
\* archive decode to its signature followed by binary data
fileText(file) ==
  CASE file.bytes.kind = "unreadable" -> [ok |-> FALSE, text |-> ""]
    [] file.bytes.kind = "text" -> [ok |-> TRUE, text |-> file.bytes.text]
    [] file.bytes.kind = "zip" -> [ok |-> TRUE, text |-> "PK"]

\* Number.parseFloat on a captured [\d.]+ text, as the shortest decimal
\* numeral of the number it returns ("NaN" when no digit leads the text)
parseFloat(t) ==
  LET dots == {i \in 1..Len(t) : Ch(t, i) = "."}
      d1 == IF dots = {} THEN Len(t) + 1 ELSE Least(dots)
      later == {i \in dots : i > d1}
      d2 == IF later = {} THEN Len(t) + 1 ELSE Least(later)
      int == substring(t, 1, d1 - 1)
      frac == substring(t, d1 + 1, d2 - 1)
      intNz == {i \in 1..Len(int) : Ch(int, i) # "0"}
      fracNz == {i \in 1..Len(frac) : Ch(frac, i) # "0"}
      whole == IF intNz = {} THEN "0" ELSE substring(int, Least(intNz), Len(int))
      part == IF fracNz = {} THEN "" ELSE "." \o substring(frac, 1, Greatest(fracNz))
  IN  IF int = "" /\ frac = "" THEN "NaN" ELSE whole \o part

(***************************************************************************)
(* extractGcodePrintSettings                                               *)
(***************************************************************************)

SettingsScanLines == 100

NumberText == Group(1, Plus(Cls(Digits \cup {"."})))

Assignment == Star(Cls(Spaces)) \o Cls({":", "="}) \o Star(Cls(Spaces)) \o NumberText

LayerHeightRegExp == RegExp(Lit("layer_height") \o Assignment, TRUE)

FillDensityRegExp == RegExp(Lit("fill_density") \o Assignment, TRUE)

TemperatureRegExp == RegExp(Lit("temperature") \o Assignment, TRUE)

BedTemperatureRegExp == RegExp(Lit("bed_temperature") \o Assignment, TRUE)

\* the four checks of the loop body: the settings field, the token the line
\* must include and the pattern its value is read with
SettingChecks ==
  [layerHeight |-> [token |-> "layer_height", pattern |-> LayerHeightRegExp],
   infill |-> [token |-> "fill_density", pattern |-> FillDensityRegExp],
   temperature |-> [token |-> "temperature", pattern |-> TemperatureRegExp],
   bedTemperature |-> [token |-> "bed_temperature", pattern |-> BedTemperatureRegExp]]

\* whether the loop body assigns the field on this line
SettingAssigned(line, field) ==
  \E trimmedLine \in {trim(line)}, check \in {SettingChecks[field]} :
     /\ includes(trimmedLine, check.token)
     /\ match(trimmedLine, check.pattern).found

\* the value the loop body assigns to the field on this line
settingValue(line, field) ==
  the({parseFloat(match(trimmedLine, check.pattern).m[1])
         : trimmedLine \in {trim(line)}, check \in {SettingChecks[field]}})

\* the loop over the lines writes each field on every line that assigns it,
\* so a field ends with the value of the last line assigning it
settingsOfLines(lines) ==
  LET at(field) == {i \in 1..Len(lines) : SettingAssigned(lines[i], field)}
      keys == {field \in DOMAIN SettingChecks : at(field) # {}}
  IN  IF Cardinality(keys) > 0
        THEN [field \in keys |-> settingValue(lines[Greatest(at(field))], field)]
        ELSE undefined

extractGcodePrintSettings(file) ==
  LET t == fileText(file)
  IN  IF ~t.ok THEN undefined
      ELSE the({settingsOfLines(lines)
                  : lines \in {slice(split(t.text, "\n"), SettingsScanLines)}})

(***************************************************************************)
(* extractGcodePrinterInfo                                                 *)
(***************************************************************************)

PrinterScanLines == 50

\* /printer[:\s]+([^\n\r;]+)/i
PrinterCommentRegExp ==
  RegExp(Lit("printer") \o Plus(Cls(Spaces \cup {":"}))
           \o Group(1, Plus(NotCls({"\n", "\r", ";"}))), TRUE)

\* /Generated by ([^,\n\r;]+)/i
GeneratedByToolRegExp ==
  RegExp(Lit("Generated by ") \o Group(1, Plus(NotCls({",", "\n", "\r", ";"}))), TRUE)

\* one pass of the loop body over a trimmed line: the value it returns, or
\* undefined when the loop goes on to the next line
printerInfoOfLine(trimmedLine) ==
  LET printerMatch == match(trimmedLine, PrinterCommentRegExp)
      generatedMatch == match(trimmedLine, GeneratedByToolRegExp)
  IN  IF startsWith(trimmedLine, ";") /\ includes(trimmedLine, "printer") /\ printerMatch.found
        THEN the({parsePrinterName(name) : name \in {trim(printerMatch.m[1])}})
      ELSE IF includes(trimmedLine, "Generated by") /\ generatedMatch.found
        THEN \* const slicerInfo = generatedMatch[1].trim()
             the({ IF includes(slicerInfo, "Prusa")
                     THEN [name |-> "Prusa Printer", brand |-> "Prusa Research"]
                   ELSE IF includes(slicerInfo, "Cura")
                     THEN [name |-> "Generic Printer", brand |-> "Generic"]
                   ELSE undefined
                   : slicerInfo \in {trim(generatedMatch.m[1])} })
      ELSE undefined

\* the loop over the trimmed lines: the first value a pass returns
printerInfoOfLines(trimmedLines) ==
  LET returning == {i \in 1..Len(trimmedLines) :
                      printerInfoOfLine(trimmedLines[i]) # undefined}
  IN  IF returning = {} THEN undefined
      ELSE printerInfoOfLine(trimmedLines[Least(returning)])

\* every line of the array trimmed
trimAll(lines) == [i \in 1..Len(lines) |-> trim(lines[i])]

extractGcodePrinterInfo(file) ==
  LET t == fileText(file)
  IN  IF ~t.ok THEN undefined
      ELSE the({printerInfoOfLines(trimmedLines)
                  : trimmedLines \in {trimAll(slice(split(t.text, "\n"), PrinterScanLines))}})

(***************************************************************************)
(* extractGcodeSlicerInfo                                                  *)
(***************************************************************************)

SlicerScanLines == 30

\* /Generated by ([^\n\r;]+)/i
GeneratedByRegExp ==
  RegExp(Lit("Generated by ") \o Group(1, Plus(NotCls({"\n", "\r", ";"}))), TRUE)

\* /([^0-9]+)\s*([\d.]+)/
NameVersionRegExp ==
  RegExp(Group(1, Plus(NotCls(Digits))) \o Star(Cls(Spaces))
           \o Group(2, Plus(Cls(Digits \cup {"."}))), FALSE)

\* whether the loop returns at this trimmed line
slicerLine(trimmedLine) ==
  includes(trimmedLine, "Generated by") /\ match(trimmedLine, GeneratedByRegExp).found

\* what the loop returns for the text after "Generated by "
slicerInfoOfText(slicerText) ==
  LET versionMatch == match(slicerText, NameVersionRegExp)
  IN  IF versionMatch.found
        THEN [name |-> trim(versionMatch.m[1]), version |-> versionMatch.m[2]]
        ELSE [name |-> slicerText]

\* the loop over the trimmed lines: it returns at the first slicer line
slicerInfoOfLines(trimmedLines) ==
  LET returning == {i \in 1..Len(trimmedLines) : slicerLine(trimmedLines[i])}
  IN  IF returning = {} THEN undefined
      ELSE the({slicerInfoOfText(slicerText)
                  : slicerText \in {trim(match(trimmedLines[Least(returning)],
                                               GeneratedByRegExp).m[1])}})

extractGcodeSlicerInfo(file) ==
  LET t == fileText(file)
  IN  IF ~t.ok THEN undefined
      ELSE the({slicerInfoOfLines(trimmedLines)
                  : trimmedLines \in {trimAll(slice(split(t.text, "\n"), SlicerScanLines))}})

(***************************************************************************)
(* The archive reader (JSZip) as the service uses it                       *)
(***************************************************************************)

\* await JSZip.loadAsync(file): rejects unless the bytes are a zip archive
loadAsync(file) ==
  IF file.bytes.kind = "zip"
    THEN [ok |-> TRUE, files |-> file.bytes.entries]
    ELSE [ok |-> FALSE, files |-> <<>>]

\* Object.keys(zip.files): the entry names, folders included, in archive order
fileNames(zip) == [k \in 1..Len(zip.files) |-> zip.files[k].name]

\* zip.file(name): the positions of the file entries (folders are not
\* files) of that name; empty when zip.file returns null
zipFile(zip, name) ==
  {k \in 1..Len(zip.files) : zip.files[k].name = name /\ ~zip.files[k].dir}

\* Array.prototype.some over the names
someName(names, P(_)) == \E k \in 1..Len(names) : P(names[k])

(***************************************************************************)
(* is3mfSliced                                                             *)
(***************************************************************************)

slicingIndicators ==
  {"PrusaSlicer", "SuperSlicer", "OrcaSlicer", "Cura", "BambuStudio",
   "Slic3r", "ideaMaker", "Simplify3D",
   "print_settings", "printer_settings", "material_settings",
   "slice_parameter", "slicing_info", "slicer_version",
   "print_time", "material_usage", "layer_count",
   "slice:", "config:", "slic3r:", "prusaslicer:", "bambustudio:",
   "xmlns:config", "xmlns:slic3r", "xmlns:slice"}

\* the names the metadata loop, and the content collection, read
isMetadataName(name) ==
  startsWith(name, "Metadata/") \/ includes(name, "auxiliary") \/ includes(name, "config")

\* the loop over the auxiliary files: it ends at the first file it reads whose
\* content cannot be read (the exception leaves through the catch: false) or
\* whose content holds one of the words (true); false when no file ends it
auxiliaryFilesSliced(zip) ==
  LET read == {k \in 1..Len(zip.files) :
                 isMetadataName(zip.files[k].name) /\ ~zip.files[k].dir}
      ends == {k \in read :
                 \/ ~zip.files[k].ok
                 \/ includes(zip.files[k].content, "slic")
                 \/ includes(zip.files[k].content, "print")
                 \/ includes(zip.files[k].content, "layer")}
  IN  ends # {} /\ zip.files[Least(ends)].ok

is3mfSliced(file) ==
  LET zip == loadAsync(file)
      names == fileNames(zip)
      modelFile == zipFile(zip, "3D/3dmodel.model")
      model == zip.files[Least(modelFile)]
      nameSignal(name) == includes(name, "Metadata/") \/ includes(name, "auxiliary")
  IN  IF ~zip.ok THEN FALSE
      ELSE IF someName(names, nameSignal) THEN TRUE
      ELSE IF modelFile # {} /\ ~model.ok THEN FALSE
      ELSE IF modelFile # {}
                /\ \E indicator \in slicingIndicators :
                     includes(toLowerCase(model.content), toLowerCase(indicator))
             THEN TRUE
      ELSE auxiliaryFilesSliced(zip)

(***************************************************************************)
(* The combined content extractPrinterInfo and extract3mfSlicerInfo read   *)
(***************************************************************************)

relevantFiles == <<"3D/3dmodel.model", "[Content_Types].xml">>

\* the loop over the names: the content of every file that exists and can be
\* read, each followed by a space
RECURSIVE contentOf(_, _)
contentOf(zip, names) ==
  IF Len(names) = 0 THEN ""
  ELSE LET f == zipFile(zip, names[1])
           piece == IF f # {} /\ zip.files[Least(f)].ok
                      THEN zip.files[Least(f)].content \o " "
                      ELSE ""
       IN  piece \o contentOf(zip, Tail(names))

allContent(zip) ==
  contentOf(zip, relevantFiles \o SelectSeq(fileNames(zip), isMetadataName))

(***************************************************************************)
(* extractPrinterInfo                                                      *)
(***************************************************************************)

Quote == Cls({"\"", "'"})

NotQuote == NotCls({"\"", "'"})

AnyText == Star(Dot)

\* /<metadata.*name=["']key["'].*>([^<]+)</i
MetadataElement(key) ==
  RegExp(Lit("<metadata") \o AnyText \o Lit("name=") \o Quote \o Lit(key) \o Quote \o AnyText
           \o Lit(">") \o Group(1, Plus(NotCls({"<"}))) \o Lit("<"), TRUE)

\* /key="([^"]+)"/i
Attribute(key) ==
  RegExp(Lit(key) \o Lit("=\"") \o Group(1, Plus(NotCls({"\""}))) \o Lit("\""), TRUE)

\* /a.*b.*[:=]["']([^"']+)["']/i
QuotedSetting(a, b) ==
  RegExp(Lit(a) \o AnyText \o Lit(b) \o AnyText \o Cls({":", "="}) \o Quote
           \o Group(1, Plus(NotQuote)) \o Quote, TRUE)

\* name "" stands for a rule without a name
printerPatterns ==
  << [pattern |-> MetadataElement("printer_model"), brand |-> "Generic", name |-> ""],
     [pattern |-> MetadataElement("printer_variant"), brand |-> "Generic", name |-> ""],
     [pattern |-> Attribute("printer_model"), brand |-> "Generic", name |-> ""],
     [pattern |-> Attribute("printer_variant"), brand |-> "Generic", name |-> ""],
     [pattern |-> RegExp(Lit("Prusa") \o AnyText \o Lit("i3") \o AnyText \o Lit("MK")
                           \o Group(1, Plus(Cls(Digits \cup {"S"}))), TRUE),
      brand |-> "Prusa Research", name |-> ""],
     [pattern |-> RegExp(Lit("Original Prusa i3 MK")
                           \o Group(1, Plus(Cls(Digits \cup {"S"}))), TRUE),
      brand |-> "Prusa Research", name |-> ""],
     [pattern |-> RegExp(Lit("Prusa") \o AnyText \o Lit("MINI"), TRUE),
      brand |-> "Prusa Research", name |-> "MINI+"],
     [pattern |-> RegExp(Lit("Prusa") \o AnyText \o Lit("XL"), TRUE),
      brand |-> "Prusa Research", name |-> "XL"],
     [pattern |-> RegExp(Lit("MK3S"), TRUE), brand |-> "Prusa Research", name |-> "i3 MK3S+"],
     [pattern |-> RegExp(Lit("MK4"), TRUE), brand |-> "Prusa Research", name |-> "MK4"],
     [pattern |-> RegExp(Lit("Bambu") \o AnyText \o Lit("X1") \o AnyText \o Lit("Carbon"), TRUE),
      brand |-> "Bambu Lab", name |-> "X1 Carbon"],
     [pattern |-> RegExp(Lit("Bambu") \o AnyText \o Lit("A1") \o AnyText \o Lit("mini"), TRUE),
      brand |-> "Bambu Lab", name |-> "A1 mini"],
     [pattern |-> RegExp(Lit("X1C"), TRUE), brand |-> "Bambu Lab", name |-> "X1 Carbon"],
     [pattern |-> RegExp(Lit("A1M"), TRUE), brand |-> "Bambu Lab", name |-> "A1 mini"],
     [pattern |-> RegExp(Lit("Ender") \o AnyText \o Group(1, Plus(Cls(Digits))), TRUE),
      brand |-> "Creality", name |-> ""],
     [pattern |-> RegExp(Lit("CR-") \o Group(1, Plus(Cls(Digits))), TRUE),
      brand |-> "Creality", name |-> ""],
     [pattern |-> RegExp(Lit("Ultimaker") \o AnyText
                           \o Group(1, Plus(Cls(CharsOf(UpperCase) \cup Digits \cup Spaces))),
                         TRUE),
      brand |-> "Ultimaker", name |-> ""],
     [pattern |-> QuotedSetting("printer", "name"), brand |-> "Generic", name |-> ""],
     [pattern |-> QuotedSetting("machine", "type"), brand |-> "Generic", name |-> ""] >>

\* /key.*[:=]\s*([^\n\r;,]+)/i
FallbackSetting(key) ==
  RegExp(Lit(key) \o AnyText \o Cls({":", "="}) \o Star(Cls(Spaces))
           \o Group(1, Plus(NotCls({"\n", "\r", ";", ","}))), TRUE)

fallbackPatterns == <<FallbackSetting("printer"), FallbackSetting("machine")>>

\* the result of the first matching rule of printerPatterns
printerInfoOfMatch(rule, mt) ==
  IF rule.name # ""
    THEN [name |-> trim(rule.name),
          brand |-> rule.brand,
          model |-> IF truthy(mt, 1) THEN trim(mt.m[1]) ELSE trim(rule.name)]
    ELSE [name |-> trim(mt.m[1]),
          brand |-> rule.brand,
          model |-> trim(mt.m[1])]

\* whether a fallback pattern matches with a first group that is not blank
fallbackMatches(content, pattern) ==
  \E fm \in {match(content, pattern)} : fm.found /\ Len(trim(fm.m[1])) > 0

\* the loop over fallbackPatterns
printerInfoOfFallback(content) ==
  LET fallback == {k \in 1..Len(fallbackPatterns) :
                     \E pattern \in {fallbackPatterns[k]} : fallbackMatches(content, pattern)}
  IN  IF fallback = {} THEN undefined
      ELSE the({parsePrinterName(name)
                  : name \in {trim(match(content, fallbackPatterns[Least(fallback)]).m[1])}})
\* the loop over printerPatterns, then the fallback
printerInfoOfContent(content) ==
  LET hit == {k \in 1..Len(printerPatterns) :
                \E rule \in {printerPatterns[k]} : match(content, rule.pattern).found}
  IN  IF hit # {}
        THEN the({printerInfoOfMatch(rule, mt)
                    : rule \in {printerPatterns[Least(hit)]},
                      mt \in {match(content, printerPatterns[Least(hit)].pattern)}})
        ELSE printerInfoOfFallback(content)

extractPrinterInfo(file) ==
  LET zip == loadAsync(file)
  IN  IF ~zip.ok THEN undefined
      ELSE the({printerInfoOfContent(content) : content \in {allContent(zip)}})

(***************************************************************************)
(* extract3mfSlicerInfo                                                    *)
(***************************************************************************)

VersionText == Group(1, Plus(Cls(Digits \cup {"."})))

\* /Tool\s+([\d.]+)/i
ToolWithVersion(tool) == RegExp(Lit(tool) \o Plus(Cls(Spaces)) \o VersionText, TRUE)

\* /<metadata.*name=["']key["'].*?value=["']([^"']+)["']/i
MetadataValue(key) ==
  RegExp(Lit("<metadata") \o AnyText \o Lit("name=") \o Quote \o Lit(key) \o Quote
           \o LazyStar(Dot) \o Lit("value=") \o Quote \o Group(1, Plus(NotQuote)) \o Quote,
         TRUE)

\* /<metadata.*name=["']key["'].*?>([^<]+)</i
MetadataText(key) ==
  RegExp(Lit("<metadata") \o AnyText \o Lit("name=") \o Quote \o Lit(key) \o Quote
           \o LazyStar(Dot) \o Lit(">") \o Group(1, Plus(NotCls({"<"}))) \o Lit("<"), TRUE)

\* the quoted value holding "slic": ["']([^"']*slic[^"']*)["']
QuotedSlic ==
  Quote \o Group(1, Star(NotQuote) \o Lit("slic") \o Star(NotQuote)) \o Quote

slicerPatterns ==
  << [pattern |-> ToolWithVersion("PrusaSlicer"), name |-> "PrusaSlicer"],
     [pattern |-> ToolWithVersion("SuperSlicer"), name |-> "SuperSlicer"],
     [pattern |-> ToolWithVersion("OrcaSlicer"), name |-> "OrcaSlicer"],
     [pattern |-> ToolWithVersion("BambuStudio"), name |-> "Bambu Studio"],
     [pattern |-> ToolWithVersion("Cura"), name |-> "Ultimaker Cura"],
     [pattern |-> ToolWithVersion("Slic3r"), name |-> "Slic3r"],
     [pattern |-> RegExp(Lit("PrusaSlicer"), TRUE), name |-> "PrusaSlicer"],
     [pattern |-> RegExp(Lit("SuperSlicer"), TRUE), name |-> "SuperSlicer"],
     [pattern |-> RegExp(Lit("OrcaSlicer"), TRUE), name |-> "OrcaSlicer"],
     [pattern |-> RegExp(Lit("BambuStudio"), TRUE), name |-> "Bambu Studio"],
     [pattern |-> RegExp(Lit("Cura"), TRUE), name |-> "Ultimaker Cura"],
     [pattern |-> RegExp(Lit("Slic3r"), TRUE), name |-> "Slic3r"],
     [pattern |-> MetadataValue("slicer"), name |-> "Slicer"],
     [pattern |-> MetadataValue("application"), name |-> "Application"],
     [pattern |-> MetadataText("slicer"), name |-> "Slicer"],
     [pattern |-> MetadataText("application"), name |-> "Application"],
     [pattern |-> RegExp(Lit("generator") \o AnyText \o QuotedSlic, TRUE), name |-> "Slicer"],
     [pattern |-> RegExp(Lit("application") \o AnyText \o Lit("name") \o AnyText \o QuotedSlic, TRUE),
      name |-> "Slicer"],
     [pattern |-> RegExp(Lit("createdBy") \o AnyText \o QuotedSlic, TRUE), name |-> "Slicer"],
     [pattern |-> RegExp(Lit("tool") \o AnyText \o QuotedSlic, TRUE), name |-> "Slicer"] >>

\* /([\d.]+)/
VersionRegExp == RegExp(VersionText, FALSE)

\* s.replace(/[\d.\s]+$/, ''): s without its trailing digits, dots and spaces
stripTrailingVersion(s) ==
  LET keep == {i \in 1..Len(s) : Ch(s, i) \notin (Digits \cup {"."} \cup Spaces)}
  IN  IF keep = {} THEN "" ELSE substring(s, 1, Greatest(keep))

\* whether the loop returns at this rule: it matched and captured a second
\* or a first group that is not empty
slicerRuleReturns(content, rule) ==
  \E mt \in {match(content, rule.pattern)} : mt.found /\ (truthy(mt, 2) \/ truthy(mt, 1))

\* { name, version: versionMatch ? versionMatch[1] : undefined }
withVersion(name, versionMatch) ==
  IF versionMatch.found
    THEN [name |-> name, version |-> versionMatch.m[1]]
    ELSE [name |-> name]

\* what the loop returns at a rule whose match mt captured a group
slicerInfoOfMatch(rule, mt) ==
  IF truthy(mt, 2) THEN [name |-> trim(mt.m[1]), version |-> trim(mt.m[2])]
  ELSE the({ IF rule.name = "Slicer" \/ rule.name = "Application"
               THEN withVersion(trim(stripTrailingVersion(mt.m[1])), versionMatch)
               ELSE withVersion(rule.name, versionMatch)
             : versionMatch \in {match(mt.m[1], VersionRegExp)} })

\* the loop over slicerPatterns: the result of the first rule that returns
slicerInfoOfContent(content) ==
  LET returning == {k \in 1..Len(slicerPatterns) :
                      \E rule \in {slicerPatterns[k]} : slicerRuleReturns(content, rule)}
  IN  IF returning = {} THEN undefined
      ELSE the({slicerInfoOfMatch(rule, mt)
                  : rule \in {slicerPatterns[Least(returning)]},
                    mt \in {match(content, slicerPatterns[Least(returning)].pattern)}})

extract3mfSlicerInfo(file) ==
  LET zip == loadAsync(file)
  IN  IF ~zip.ok THEN undefined
      ELSE the({slicerInfoOfContent(content) : content \in {allContent(zip)}})

(***************************************************************************)
(* extract3mfPrintSettings                                                 *)
(***************************************************************************)

\* the empty object {}
extract3mfPrintSettings(file) == [field \in {} |-> ""]

(***************************************************************************)
(* performFileAnalysis, performDetailedFileAnalysis                        *)
(***************************************************************************)

\* a variant that extracts the printer of a container whether sliced or not
performFileAnalysis_alwaysPrinter(file) ==
  LET fileType == detectFileType(file.name)
  IN  IF fileType = TMF
        THEN [fileType |-> fileType,
              isSliced |-> is3mfSliced(file),
              printerInfo |-> extractPrinterInfo(file)]
      ELSE IF fileType = GCODE
        THEN [fileType |-> fileType,
              isSliced |-> TRUE,
              printerInfo |-> extractGcodePrinterInfo(file)]
      ELSE [fileType |-> fileType, isSliced |-> FALSE]

\* a variant that reports a file sliced when a printer was found in it
performFileAnalysis_slicedByPrinter(file) ==
  LET fileType == detectFileType(file.name)
      isSliced == is3mfSliced(file)
      gcodePrinter == extractGcodePrinterInfo(file)
  IN  IF fileType = TMF
        THEN [fileType |-> fileType,
              isSliced |-> isSliced,
              printerInfo |-> IF isSliced THEN extractPrinterInfo(file) ELSE undefined]
      ELSE IF fileType = GCODE
        THEN [fileType |-> fileType,
              isSliced |-> gcodePrinter # undefined,
              printerInfo |-> gcodePrinter]
      ELSE [fileType |-> fileType, isSliced |-> FALSE]

performFileAnalysis(file) ==
  LET fileType == detectFileType(file.name)
      isSliced == is3mfSliced(file)
  IN  IF fileType = TMF
        THEN [fileType |-> fileType,
              isSliced |-> isSliced,
              printerInfo |-> IF isSliced THEN extractPrinterInfo(file) ELSE undefined]
      ELSE IF fileType = GCODE
        THEN [fileType |-> fileType,
              isSliced |-> TRUE,
              printerInfo |-> extractGcodePrinterInfo(file)]
      ELSE [fileType |-> fileType, isSliced |-> FALSE]

\* the detailed fields added to the basic analysis of the file
detailedAnalysisOf(file, basicAnalysis) ==
  IF basicAnalysis.fileType = TMF /\ basicAnalysis.isSliced
    THEN basicAnalysis @@ [fileSize |-> file.size,
                           slicerInfo |-> extract3mfSlicerInfo(file),
                           printSettings |-> extract3mfPrintSettings(file)]
  ELSE IF basicAnalysis.fileType = GCODE
    THEN basicAnalysis @@ [fileSize |-> file.size,
                           slicerInfo |-> extractGcodeSlicerInfo(file),
                           printSettings |-> extractGcodePrintSettings(file)]
  ELSE basicAnalysis @@ [fileSize |-> file.size]

performDetailedFileAnalysis(file) ==
  the({detailedAnalysisOf(file, basicAnalysis) : basicAnalysis \in {performFileAnalysis(file)}})

(***************************************************************************)
(* Bounded inputs                                                          *)
(***************************************************************************)

\* at most this many lines of a pool make up a machine-code text
MaxLines == 2

RECURSIVE repeat(_, _)
repeat(s, n) ==
  IF n = 0 THEN ""
  ELSE IF n = 1 THEN s
  ELSE repeat(s, n \div 2) \o repeat(s, n - n \div 2)

RECURSIVE joinLines(_)
joinLines(lines) ==
  IF Len(lines) = 0 THEN ""
  ELSE IF Len(lines) = 1 THEN lines[1]
  ELSE lines[1] \o "\n" \o joinLines(Tail(lines))

\* the texts of at most MaxLines lines of the pool, each after `pad` empty lines
TextsOf(pool, pads) ==
  {repeat("\n", pad) \o joinLines(lines) :
     pad \in pads, lines \in UNION {[1..n -> pool] : n \in 0..MaxLines}}

TextFile(name, text) ==
  [name |-> name, size |-> Len(text), bytes |-> [kind |-> "text", text |-> text]]

UnreadableFile(name) == [name |-> name, size |-> 1, bytes |-> [kind |-> "unreadable"]]

\* at most this many entries of a pool make up an archive
MaxEntries == 2

Entry(name, content) == [name |-> name, dir |-> FALSE, ok |-> TRUE, content |-> content]

\* an entry whose content cannot be read as text
BrokenEntry(name) == [name |-> name, dir |-> FALSE, ok |-> FALSE, content |-> ""]

Folder(name) == [name |-> name, dir |-> TRUE, ok |-> FALSE, content |-> ""]

\* the entries of the pool at the positions I, in pool order
RECURSIVE entriesAt(_, _)
entriesAt(pool, I) ==
  IF I = {} THEN <<>>
  ELSE <<pool[Least(I)]>> \o entriesAt(pool, I \ {Least(I)})

\* the archives of at most MaxEntries entries of the pool, no name twice
ArchivesOf(pool) ==
  {entriesAt(pool, I) :
     I \in {J \in SUBSET (1..Len(pool)) :
              /\ Cardinality(J) <= MaxEntries
              /\ \A a, b \in J : a # b => pool[a].name # pool[b].name}}

ZipFile(name, entries) ==
  [name |-> name, size |-> 22 + Len(entries),
   bytes |-> [kind |-> "zip", entries |-> entries]]

(***************************************************************************)
(* Classification of bounded filenames                                     *)
(***************************************************************************)

NamePrefixes == {"", ".", "model", "model.", "Model.", "a.b.", "a.stl.", "x.gcode."}

NameSuffixes == {"stl", "STL", "Stl", "3mf", "3MF", "gcode", "GCODE", "GCode",
                 "g", "G", "obj", "", "stl ", "gco", "mf"}

FileNames == {p \o e : p \in NamePrefixes, e \in NameSuffixes}

InitClassify == pc = "start" /\ input \in FileNames /\ output = ""

DetectFileType ==
  /\ pc = "start"
  /\ pc' = "detectFileType"
  /\ output' = detectFileType(input)
  /\ UNCHANGED input

NextClassify == DetectFileType

SpecClassify == InitClassify /\ [][NextClassify]_vars

\* the extension table of the classifier
ExtensionTable(ext) ==
  CASE ext = "stl" -> STL
    [] ext = "3mf" -> TMF
    [] ext = "gcode" -> GCODE
    [] ext = "g" -> GCODE
    [] OTHER -> UNKNOWN

\* C1: detectFileType depends only on the lowercased text after the last '.':
\* stl -> MeshSource, 3mf -> ManufacturingContainer, gcode / g -> MachineCode,
\* anything else Unknown; a filename with no '.' at all is Unknown, also when
\* the whole name is 'stl', '3mf', 'gcode' or 'g'.
C1_ClassifiedByTrailingExtension ==
  pc = "detectFileType" =>
    LET dots == {i \in 1..Len(input) : Ch(input, i) = "."}
    IN  output = IF dots = {} THEN UNKNOWN
                 ELSE ExtensionTable(toLowerCase(
                        substring(input, Greatest(dots) + 1, Len(input))))

(***************************************************************************)
(* Normalization of bounded raw printer identifiers                        *)
(***************************************************************************)

RawBrands == {"", "Prusa ", "Original PRUSA ", "BAMBU ", "Bambu Lab ", "Creality Ender ",
              "prusa bambu "}

RawModels == {"", "i3 MK3S+", "MK4", "mk4 mk3", "MINI", "XL", "X1", "X1 CARBON", "x1c",
              "X1E", "A1", "A1 mini", "A1M", "A1 Combo", "P1S", "P1P", "P1", "3 V2",
              "Unknown Thing"}

RawTails == {"", " 0.4n"}

RawNames == {b \o m \o t : b \in RawBrands, m \in RawModels, t \in RawTails}

InitPrinterCatalog == pc = "start" /\ input \in RawNames /\ output = <<>>

ParsePrinterName ==
  /\ pc = "start"
  /\ pc' = "parsePrinterName"
  /\ output' = <<parsePrinterName(input)>>
  /\ UNCHANGED input

\* the canonical name of the record is normalized again
Renormalize ==
  /\ pc = "parsePrinterName"
  /\ pc' = "renormalize"
  /\ output' = Append(output, parsePrinterName(output[1].name))
  /\ UNCHANGED input

NextPrinterCatalog == ParsePrinterName \/ Renormalize

SpecPrinterCatalog == InitPrinterCatalog /\ [][NextPrinterCatalog]_vars

\* the rule table of the printer catalog, in its priority order
CatalogRecord(raw) ==
  LET l == toLowerCase(raw)
      has(w) == includes(l, w)
  IN  IF has("prusa")
        THEN [brand |-> "Prusa Research",
              name |-> IF has("mk3") THEN "i3 MK3S+"
                       ELSE IF has("mk4") THEN "MK4"
                       ELSE IF has("mini") THEN "MINI+"
                       ELSE IF has("xl") THEN "XL"
                       ELSE raw]
      ELSE IF has("bambu")
        THEN [brand |-> "Bambu Lab",
              name |-> IF (has("x1") /\ has("carbon")) \/ has("x1c") THEN "X1 Carbon"
                       ELSE IF has("x1e") THEN "X1E"
                       ELSE IF has("x1") THEN "X1"
                       ELSE IF (has("a1") /\ has("mini")) \/ has("a1m") THEN "A1 mini"
                       ELSE IF has("a1") /\ has("combo") THEN "A1 Combo"
                       ELSE IF has("a1") THEN "A1"
                       ELSE IF has("p1s") THEN "P1S"
                       ELSE IF has("p1p") \/ has("p1") THEN "P1P"
                       ELSE raw]
      ELSE IF has("ender") THEN [brand |-> "Creality", name |-> raw]
      ELSE [brand |-> "Generic", name |-> raw]

\* C6: parsePrinterName returns the record of the first satisfied rule of the
\* catalog's priority order; a Bambu identifier with x1 but none of carbon,
\* x1c, x1e is named 'X1', one with a1 but no mini / a1m / combo is 'A1'.
C6_FirstRuleOfCatalogOrder ==
  pc = "parsePrinterName" => output[1] = CatalogRecord(input)

\* C7: re-normalizing the canonical name gives the same record, brand and name.
C7_RenormalizedRecordIsSame ==
  pc = "renormalize" => output[2] = output[1]

\* C7 as amended: re-normalizing the canonical name gives the same name; the
\* brand is kept or falls back to Generic.
C7_RenormalizedNameIsSame ==
  pc = "renormalize" =>
    /\ output[2].name = output[1].name
    /\ output[2].brand \in {output[1].brand, "Generic"}

\* a canonical name of the catalog re-normalized: the name stays and the
\* brand is lost
C7_Witness ==
  /\ pc = "renormalize"
  /\ output[1].name # input
  /\ output[2].name = output[1].name
  /\ output[2].brand # output[1].brand

(***************************************************************************)
(* Print settings of bounded machine-code texts                            *)
(***************************************************************************)

SettingLines == {"; layer_height = 0.2", ";fill_density: 15", "; temperature = 215",
                 "bed_temperature = 60", "G1 X0 Y0", "; LAYER_HEIGHT = 0.3",
                 "; layer_height = auto", "M104 S210 ; temperature"}

SettingFiles ==
  {TextFile("part.gcode", t) :
     t \in TextsOf(SettingLines, {0, SettingsScanLines - 1, SettingsScanLines})}
    \cup {UnreadableFile("part.gcode")}

InitSettings == pc = "start" /\ input \in SettingFiles /\ output = undefined

ExtractGcodePrintSettings ==
  /\ pc = "start"
  /\ pc' = "extractGcodePrintSettings"
  /\ output' = extractGcodePrintSettings(input)
  /\ UNCHANGED input

NextSettings == ExtractGcodePrintSettings

SpecSettings == InitSettings /\ [][NextSettings]_vars

\* the key of each settings field
SettingKey ==
  [layerHeight |-> "layer_height", infill |-> "fill_density",
   temperature |-> "temperature", bedTemperature |-> "bed_temperature"]

IdentifierChars == CharsOf(UpperCase) \cup CharsOf(LowerCase) \cup Digits \cup {"_"}

\* the line holds `key [:=] number` with the key as a word of its own
OwnKeyAssigned(line, field) ==
  LET re == RegExp(Lit(SettingKey[field]) \o Assignment, FALSE)
  IN  \E i \in 1..Len(line) :
        /\ (i = 1 \/ Ch(line, i - 1) \notin IdentifierChars)
        /\ Len(MatchFrom(re, 1, line, i)) > 0

\* C8: each settings field is populated only from its own key, matched as
\* `key [:=] number` within the first 100 lines; a key that does not occur
\* leaves its field absent (a text whose only setting line is
\* `bed_temperature = 60` has bedTemperature and no temperature), and with no
\* key found printSettings is absent rather than empty.
C8_FieldsOnlyFromOwnKeys ==
  (pc = "extractGcodePrintSettings" /\ input.bytes.kind = "text") =>
    LET lines == slice(split(input.bytes.text, "\n"), SettingsScanLines)
        found == {field \in DOMAIN SettingKey :
                    \E i \in 1..Len(lines) : OwnKeyAssigned(lines[i], field)}
    IN  IF found = {} THEN output = undefined
        ELSE output # undefined /\ DOMAIN output = found

(***************************************************************************)
(* Basic and detailed analysis of bounded files                            *)
(***************************************************************************)

EntryPool ==
  << Entry("3D/3dmodel.model", "<model unit=\"mm\"></model>"),
     Entry("3D/3dmodel.model", "<model>Original Prusa MK4</model>"),
     Entry("3D/3dmodel.model", "<metadata name=\"Application\">PrusaSlicer 2.7.0</metadata>"),
     BrokenEntry("3D/3dmodel.model"),
     Entry("[Content_Types].xml", "<Types/>"),
     Entry("Metadata/model_settings.config", "<metadata key=\"gcode_file\" value=\"p.gcode\"/>"),
     Entry("Metadata/model_settings.config", "<config/>"),
     Entry("Metadata/project_settings.config", "printer_model=\"Bambu Lab X1 Carbon\""),
     Entry("Metadata/thumbnail.png", "PNG"),
     Folder("Metadata/"),
     Entry("Prints/a.gcode", "G1 X0 Y0"),
     Entry("Prints/b.g", "G28"),
     Entry("app.config", "nozzle = 0.4"),
     Entry("slicer.config", "layer_height = 0.2; printer = Ender-3") >>

HeaderLines == {"; generated by PrusaSlicer 2.7.0", "; Generated by Cura 5.2",
                "; printer: Bambu Lab X1", "G1 X0 Y0", "; layer_height = 0.2", ""}

AnalysisNames == {"part.3mf", "part.gcode", "part.g", "Model.STL", "readme.txt"}

AnalysisBytes ==
  {[kind |-> "zip", entries |-> es] : es \in ArchivesOf(EntryPool)}
    \cup {[kind |-> "text", text |-> t] : t \in TextsOf(HeaderLines, {0})}
    \cup {[kind |-> "unreadable"]}

AnalysisFiles ==
  {[name |-> n,
    size |-> CASE b.kind = "zip" -> 22 + Len(b.entries)
               [] b.kind = "text" -> Len(b.text)
               [] OTHER -> 1,
    bytes |-> b] : n \in AnalysisNames, b \in AnalysisBytes}

Init == pc = "start" /\ input \in AnalysisFiles /\ output = undefined

\* analyzeFile(file): the promise of performFileAnalysis settles
AnalyzeFile ==
  /\ pc = "start"
  /\ pc' = "analyzeFile"
  /\ output' = performFileAnalysis(input)
  /\ UNCHANGED input

\* analyzeFileDetailed(file): the promise of performDetailedFileAnalysis settles
AnalyzeFileDetailed ==
  /\ pc = "start"
  /\ pc' = "analyzeFileDetailed"
  /\ output' = performDetailedFileAnalysis(input)
  /\ UNCHANGED input

Next == AnalyzeFile \/ AnalyzeFileDetailed

Spec == Init /\ [][Next]_vars

Analyzed == pc \in {"analyzeFile", "analyzeFileDetailed"}

\* the result carries a printerInfo that is not undefined
HasPrinterInfo(result) == "printerInfo" \in DOMAIN result /\ result.printerInfo # undefined

\* C2: in every result of basic or detailed analysis isSliced is true when
\* fileType is MachineCode, whatever the content (empty or unreadable text
\* too), and false when fileType is MeshSource or Unknown; only a
\* ManufacturingContainer yields either value.
C2_SlicedByFileType ==
  Analyzed =>
    /\ output.isSliced \in BOOLEAN
    /\ output.fileType = GCODE => output.isSliced = TRUE
    /\ output.fileType \in {STL, UNKNOWN} => output.isSliced = FALSE

\* a machine-code file whose text cannot be read is analysed as sliced
C2_Witness ==
  /\ Analyzed
  /\ output.fileType = GCODE
  /\ input.bytes.kind = "unreadable"
  /\ output.isSliced = TRUE

\* C3: in every result of basic or detailed analysis printerInfo is present
\* only if isSliced is true; a MeshSource or Unknown file and an unsliced
\* container never carry printerInfo.
C3_PrinterInfoOnlyIfSliced ==
  Analyzed =>
    /\ HasPrinterInfo(output) => output.isSliced = TRUE
    /\ output.fileType \in {STL, UNKNOWN} => ~HasPrinterInfo(output)

\* an unsliced container whose content names a printer is analysed without
\* printerInfo
C3_Witness ==
  /\ Analyzed
  /\ output.fileType = TMF
  /\ output.isSliced = FALSE
  /\ extractPrinterInfo(input) # undefined
  /\ ~HasPrinterInfo(output)

\* the entry Metadata/model_settings.config holds the text gcode_file
HasGcodeReference(entries) ==
  \E k \in 1..Len(entries) :
     /\ entries[k].name = "Metadata/model_settings.config"
     /\ ~entries[k].dir
     /\ entries[k].ok
     /\ includes(entries[k].content, "gcode_file")

\* an entry's name ends in .gcode or .g
HasMachineCodeEntry(entries) ==
  \E k \in 1..Len(entries) :
     /\ ~entries[k].dir
     /\ \/ endsWith(toLowerCase(entries[k].name), ".gcode")
        \/ endsWith(toLowerCase(entries[k].name), ".g")

\* the file is a container: it is named .3mf and its bytes are an archive
IsContainer(file) == detectFileType(file.name) = TMF /\ file.bytes.kind = "zip"

\* C4: a container with no Metadata/model_settings.config entry holding
\* gcode_file but with an entry whose name ends in .gcode or .g (such as
\* Prints/a.gcode) is analysed as isSliced = true.
C4_MachineCodeEntryMeansSliced ==
  (/\ Analyzed
   /\ IsContainer(input)
   /\ ~HasGcodeReference(input.bytes.entries)
   /\ HasMachineCodeEntry(input.bytes.entries))
    => output.isSliced = TRUE

\* C5: a container with neither signal (no Metadata/model_settings.config
\* entry holding gcode_file, no entry named .gcode / .g) is analysed as
\* isSliced = false without printerInfo, whatever other entries it holds.
C5_NeitherSignalMeansUnsliced ==
  (/\ Analyzed
   /\ IsContainer(input)
   /\ ~HasGcodeReference(input.bytes.entries)
   /\ ~HasMachineCodeEntry(input.bytes.entries))
    => (output.isSliced = FALSE /\ ~HasPrinterInfo(output))

(***************************************************************************)
(* Slicer detection on bounded machine-code texts and containers           *)
(***************************************************************************)

SlicerHeaderLines ==
  {"; Generated by PrusaSlicer 2.7.0 on 2024-01-01", "; Generated by Slic3r 1.3.0",
   "; Generated by Cura 5.2", "; Generated by OrcaSlicer", "G1 X0 Y0",
   "; generated by SuperSlicer 2.5"}

SlicerEntryPool ==
  << Entry("3D/3dmodel.model", "<model>PrusaSlicer</model>"),
     Entry("3D/3dmodel.model", "<metadata name=\"Application\">PrusaSlicer 2.7.0</metadata>"),
     Entry("3D/3dmodel.model", "<metadata name=\"Application\">Cura</metadata>"),
     Entry("3D/3dmodel.model", "<metadata name=\"slicer\" value=\"Slic3r 1.3.0\"/>"),
     Entry("3D/3dmodel.model", "<model unit=\"mm\"></model>"),
     BrokenEntry("3D/3dmodel.model"),
     Entry("[Content_Types].xml", "<Types/>"),
     Entry("Metadata/slice_info.config", "BambuStudio 1.8"),
     Entry("Metadata/slice_info.config", "generator=\"MySlicer 1.0\""),
     Entry("Metadata/slice_info.config", "<config>OrcaSlicer</config>"),
     Entry("Metadata/project_settings.config", "printer_model=\"Bambu Lab X1 Carbon\""),
     Entry("Prints/a.gcode", "; Generated by Cura 5.2") >>

SlicerFiles ==
  {TextFile("part.gcode", t) :
     t \in TextsOf(SlicerHeaderLines, {0, SlicerScanLines - 1, SlicerScanLines})}
    \cup {UnreadableFile("part.gcode"), UnreadableFile("part.3mf")}
    \cup {ZipFile("part.3mf", es) : es \in ArchivesOf(SlicerEntryPool)}

InitSlicer == pc = "start" /\ input \in SlicerFiles /\ output = undefined

\* performDetailedFileAnalysis reads the slicer of a machine-code file
ExtractGcodeSlicerInfo ==
  /\ pc = "start"
  /\ detectFileType(input.name) = GCODE
  /\ pc' = "extractGcodeSlicerInfo"
  /\ output' = extractGcodeSlicerInfo(input)
  /\ UNCHANGED input

\* performDetailedFileAnalysis reads the slicer of a sliced container
Extract3mfSlicerInfo ==
  /\ pc = "start"
  /\ detectFileType(input.name) = TMF
  /\ is3mfSliced(input)
  /\ pc' = "extract3mfSlicerInfo"
  /\ output' = extract3mfSlicerInfo(input)
  /\ UNCHANGED input

NextSlicer == ExtractGcodeSlicerInfo \/ Extract3mfSlicerInfo

SpecSlicer == InitSlicer /\ [][NextSlicer]_vars

\* the known tools, in catalog order
KnownTools ==
  <<"PrusaSlicer", "SuperSlicer", "OrcaSlicer", "BambuStudio", "Cura", "Slic3r">>

\* the names under which a result may report a known tool
CanonicalNames(tool) ==
  CASE tool = "BambuStudio" -> {"BambuStudio", "Bambu Studio"}
    [] tool = "Cura" -> {"Cura", "Ultimaker Cura"}
    [] OTHER -> {tool}

\* the dotted version number that follows the tool name in the text, or ""
DottedVersionAfter(text, tool) ==
  LET mt == match(text, RegExp(Lit(tool) \o Plus(Cls(Spaces)) \o VersionText, FALSE))
      v == mt.m[1]
  IN  IF mt.found /\ includes(v, ".") /\ Ch(v, 1) \in Digits /\ Ch(v, Len(v)) \in Digits
        THEN v
        ELSE ""

\* the known tools the texts name with a dotted version, with that version
ToolVersionsIn(texts) ==
  {<<KnownTools[kt[1]], DottedVersionAfter(kt[2], KnownTools[kt[1]])>> :
     kt \in {p \in (1..Len(KnownTools)) \X texts :
               DottedVersionAfter(p[2], KnownTools[p[1]]) # ""}}

\* the content slicer detection inspects: the scanned lines of a machine-code
\* text, the combined content of a container
InspectedTexts ==
  IF pc = "extractGcodeSlicerInfo" /\ input.bytes.kind = "text"
    THEN LET lines == slice(split(input.bytes.text, "\n"), SlicerScanLines)
         IN  {lines[i] : i \in 1..Len(lines)}
  ELSE IF pc = "extract3mfSlicerInfo" /\ input.bytes.kind = "zip"
    THEN {allContent(loadAsync(input))}
  ELSE {}

\* C9: whenever the inspected content names a known tool followed by a
\* dotted version number, slicer detection returns that tool's canonical name
\* and the full version, on the machine-code path and on the container path
\* (Generated by Slic3r 1.3.0 gives Slic3r, 1.3.0).
C9_KnownToolWithVersion ==
  \A tv \in ToolVersionsIn(InspectedTexts) :
     ToolVersionsIn(InspectedTexts) = {tv} =>
       /\ output # undefined
       /\ output.name \in CanonicalNames(tv[1])
       /\ "version" \in DOMAIN output
       /\ output.version = tv[2]

\* C10: when the inspected content holds a known tool name but no known tool
\* name followed by a version, slicer detection stops at the unversioned rule:
\* it returns that tool's canonical name without a version, and neither falls
\* through to later rules nor to no slicer info.
C10_UnversionedToolNamed ==
  (pc = "extract3mfSlicerInfo" /\ input.bytes.kind = "zip") =>
    LET content == allContent(loadAsync(input))
        named == {k \in 1..Len(KnownTools) : includes(content, KnownTools[k])}
        versioned == {k \in 1..Len(KnownTools) :
                        match(content, ToolWithVersion(KnownTools[k])).found}
    IN  (named # {} /\ versioned = {}) =>
          /\ output # undefined
          /\ output.name \in CanonicalNames(KnownTools[Least(named)])
          /\ "version" \notin DOMAIN output

(***************************************************************************)
(* Printer detection on bounded machine-code headers                       *)
(***************************************************************************)

PrinterHeaderLines ==
  {"; printer: Bambu Lab X1", "; printer Prusa MK4", "; Generated by Cura 5.2",
   "; Generated by PrusaSlicer 2.7.0", "; Generated by Slic3r 1.3.0", "G1 X0 Y0",
   "printer: Ender 3", "; printer_settings_id = MK4"}

PrinterHeaderFiles ==
  {TextFile("part.gcode", t) :
     t \in TextsOf(PrinterHeaderLines, {0, PrinterScanLines - 1, PrinterScanLines})}
    \cup {UnreadableFile("part.gcode")}

InitHeaderScan == pc = "start" /\ input \in PrinterHeaderFiles /\ output = undefined

\* performFileAnalysis reads the printer of a machine-code file
ExtractGcodePrinterInfo ==
  /\ pc = "start"
  /\ detectFileType(input.name) = GCODE
  /\ pc' = "extractGcodePrinterInfo"
  /\ output' = extractGcodePrinterInfo(input)
  /\ UNCHANGED input

NextHeaderScan == ExtractGcodePrinterInfo

SpecHeaderScan == InitHeaderScan /\ [][NextHeaderScan]_vars

\* a comment line containing printer from which a printer name can be extracted
IsPrinterLine(line) ==
  LET t == trim(line)
  IN  startsWith(t, ";") /\ includes(t, "printer") /\ match(t, PrinterCommentRegExp).found

\* the normalization of the name a printer line carries
PrinterOfLine(line) ==
  parsePrinterName(trim(match(trim(line), PrinterCommentRegExp).m[1]))

\* the records of the Generated by fallback, and no printer info
GeneratedByFallbacks ==
  {[name |-> "Prusa Printer", brand |-> "Prusa Research"],
   [name |-> "Generic Printer", brand |-> "Generic"],
   undefined}

\* C11: if any of the first 50 lines is a comment line containing printer
\* from which a name can be extracted, the header scan returns the
\* normalization of the first such line, whether a Generated by line stands
\* before or after it; the Generated by fallback is used only when the window
\* has no such line.
C11_FirstPrinterLineWins ==
  (pc = "extractGcodePrinterInfo" /\ input.bytes.kind = "text") =>
    LET lines == slice(split(input.bytes.text, "\n"), PrinterScanLines)
        printerLines == {i \in 1..Len(lines) : IsPrinterLine(lines[i])}
    IN  IF printerLines # {}
          THEN output = PrinterOfLine(lines[Least(printerLines)])
          ELSE output \in GeneratedByFallbacks

(***************************************************************************)
(* Failures of the input and of single extraction steps                    *)
(***************************************************************************)

\* the outcome of a call that surfaces an error instead of a result
Rejected == [rejected |-> TRUE]

\* the content the analysis starts from cannot be obtained: the text of a
\* machine-code file cannot be read, the bytes of a container do not load as
\* an archive
ContentUnobtainable(file) ==
  \/ detectFileType(file.name) = GCODE /\ ~fileText(file).ok
  \/ detectFileType(file.name) = TMF /\ ~loadAsync(file).ok

\* C12: when the initial content of the input cannot be obtained (reading the
\* text or loading the archive fails), analyzeFile / analyzeFileDetailed
\* surface an error instead of a result, and a call fails in no other way.
C12_FailsIffContentUnobtainable ==
  Analyzed => (output = Rejected <=> ContentUnobtainable(input))

\* the file with every entry that cannot be read replaced by a readable entry
\* of the same name that holds nothing
WithNothingFound(file) ==
  [file EXCEPT !.bytes.entries =
     [k \in 1..Len(@) |->
        IF ~@[k].dir /\ ~@[k].ok THEN Entry(@[k].name, "") ELSE @[k]]]

\* an entry of the container cannot be read
HasUnreadableEntry(file) ==
  \E k \in 1..Len(file.bytes.entries) :
     ~file.bytes.entries[k].dir /\ ~file.bytes.entries[k].ok

\* C13: in the detailed analysis of a readable input a failure inside one
\* extraction step (such as a container entry that cannot be read) only makes
\* that step find nothing: the call completes with a result, and isSliced,
\* printerInfo, slicerInfo, printSettings and fileSize have the values they
\* have when the failing step simply finds nothing.
C13_FailedStepFindsNothing ==
  (pc = "analyzeFileDetailed" /\ IsContainer(input) /\ HasUnreadableEntry(input)) =>
    /\ output # Rejected
    /\ output = performDetailedFileAnalysis(WithNothingFound(input))

=============================================================================
